---- MODULE Spec2Model ----
(***************************************************************************)
(* Model of pipeline_runner/repository.py: RepositoryCloner.clone() and    *)
(* the bootstrap script built by RepositoryCloner._get_clone_script(),     *)
(* interpreted directive by directive against the source tree and the      *)
(* build directory of the data volume.                                     *)
(***************************************************************************)
EXTENDS Integers, Sequences, FiniteSets, TLC

\* ------------------------------------------------------------------------
\* Bounds

\* number of clone() invocations made against the same data volume
MaxRuns == 2

\* ------------------------------------------------------------------------
\* Values

\* Python's None
None == "None"

\* an optional bool of CloneSettings: None, True or False
OptBool == {None, "True", "False"}

\* config.remote_workspace_dir, the standard configured workspace
remote_workspace_dir == "/ws"

\* the values os.environ.get('PIPELINE_RUNNER_PARENT_REPO_PATH') can give:
\* unset, set to the empty string, set to a path
ParentRepoPaths == {None, "", "/parent/src"}

\* CloneSettings().enabled, the built-in default
DefaultEnabled == "True"

\* the name and e-mail of the automation identity the script configures
FixedName == "bitbucket-pipelines"

FixedEmail == "commits-noreply@bitbucket.org"

\* an origin a source repository may already have in its .git/config
UpstreamUrl == "https://example.org/repo.git"

\* CloneSettings().lfs, the built-in default
DefaultLfs == "False"

\* CloneSettings().depth, the built-in default
DefaultDepth == "50"

\* the depths a layer can hold
OptDepth == {None, "1"}

\* step.clone_settings.lfs/depth, pipeline clone_settings.lfs/depth and
\* repository.get_current_branch(), all unset on the default branch
BaseVariant ==
  [ stepLfs |-> None, globalLfs |-> None, stepDepth |-> None,
    globalDepth |-> None, branch |-> "main" ]

\* steps that differ from it in lfs, in depth or in the current branch
Variants ==
  { BaseVariant, [BaseVariant EXCEPT !.stepLfs = "True"],
    [BaseVariant EXCEPT !.globalDepth = "1"],
    [BaseVariant EXCEPT !.branch = "dev"] }

\* the fields of CloneSettings
Fields == {"enabled", "lfs", "depth"}

\* the values a layer can hold for a field: absent, or a present value, of
\* which "False" and "0" are falsy
LayerValues(f) ==
  IF f = "depth" THEN {None, "0", "50"} ELSE OptBool

\* ------------------------------------------------------------------------
\* Settings resolver

\* mutant: a truthiness test in place of the `is not None` test
FirstTruthy(args) ==
  IF \E i \in 1..Len(args) : args[i] \notin {None, "False"}
  THEN args[CHOOSE i \in 1..Len(args) :
              /\ args[i] \notin {None, "False"}
              /\ \A j \in 1..(i-1) : args[j] \in {None, "False"}]
  ELSE None

\* mutant: the pipeline layer is looked at before the step layer
PipelineFirst(args) ==
  IF Len(args) >= 2 /\ args[2] # None THEN args[2]
  ELSE IF \E i \in 1..Len(args) : args[i] # None
  THEN args[CHOOSE i \in 1..Len(args) :
              /\ args[i] # None
              /\ \A j \in 1..(i-1) : args[j] = None]
  ELSE None

\* next((v for v in args if v is not None), None)
_first_non_none_value(args) ==
  IF \E i \in 1..Len(args) : args[i] # None
  THEN args[CHOOSE i \in 1..Len(args) :
              /\ args[i] # None
              /\ \A j \in 1..(i-1) : args[j] = None]
  ELSE None

\* bool(v) of an optional bool
Bool(v) == v = "True"

\* bool(first_non_none(step.enabled, global.enabled, CloneSettings().enabled))
_should_clone(stepE, globalE) ==
  Bool(_first_non_none_value(<<stepE, globalE, DefaultEnabled>>))

\* bool(first_non_none(step.lfs, global.lfs, CloneSettings().lfs))
_should_clone_lfs(stepL, globalL) ==
  Bool(_first_non_none_value(<<stepL, globalL, DefaultLfs>>))

\* first_non_none(step.depth, global.depth, CloneSettings().depth)
_get_clone_depth(stepD, globalD) ==
  _first_non_none_value(<<stepD, globalD, DefaultDepth>>)

\* str(b) of a bool
Str(b) == IF b THEN "True" ELSE "False"

\* the truth value of a depth in `if clone_depth:`
Truthy(v) == v \notin {None, "0", ""}

\* " ".join of the clone command for settings st and the given origin
_get_clone_command(origin, st) ==
  (IF ~_should_clone_lfs(st.stepLfs, st.globalLfs)
   THEN "GIT_LFS_SKIP_SMUDGE=1 " ELSE "")
  \o "git clone --branch='" \o st.branch \o "'"
  \o (IF Truthy(_get_clone_depth(st.stepDepth, st.globalDepth))
      THEN " --depth " \o _get_clone_depth(st.stepDepth, st.globalDepth)
      ELSE "")
  \o " " \o origin \o " $BUILD_DIR"

\* ------------------------------------------------------------------------
\* State

VARIABLES
  src,               \* the source tree at the resolved workspace path
  envParent,         \* PIPELINE_RUNNER_PARENT_REPO_PATH in os.environ
  containerIdentity, \* git finds a committer identity outside the repository
  build,             \* $BUILD_DIR on the data volume
  runs,              \* clone() invocations made so far
  stepEnabled,       \* ctx.step.clone_settings.enabled
  globalEnabled,     \* ctx.pipeline_ctx.clone_settings.enabled
  pc,                \* position of the current clone() invocation
  pending,           \* the exception travelling through the finally clause
  outcome,           \* how the current or last invocation ended
  calls,             \* runner calls of the current invocation, in order
  containerRunning,  \* a container of the runner is up
  safeDir,           \* safe.directory of the container's system gitconfig
  cmdRc,             \* exit code of run_command, -1 before it returned
  scriptRc,          \* exit code of run_script, -1 before it returned
  spc,               \* index of the next directive of the running script
  cwd,               \* working directory of the shell running the script
  trace,             \* commands the running script has executed
  exits,             \* exit code of every script execution, in order
  field,             \* the settings field a resolution is made for
  layers,            \* its step, pipeline and default values
  resolved,          \* the method applied to them and what it returned
  variants,          \* lfs, depth and branch combinations the steps may have
  settings,          \* the lfs and depth settings and the current branch
  args,              \* the arguments of the runner calls, call by call
  log                \* the enabled invocations that have ended

vars == << src, envParent, containerIdentity, build, runs, stepEnabled,
           globalEnabled, pc, pending, outcome, calls, containerRunning,
           safeDir, cmdRc, scriptRc, spc, cwd, trace, exits, field, layers,
           resolved, variants, settings, args, log >>

\* ------------------------------------------------------------------------
\* Bootstrap script builder

\* one shell directive: what it does (op, a, b) and the line as emitted
D(op, a, b, text) == [op |-> op, a |-> a, b |-> b, text |-> text]

\* workspace_path: the override when it is a non-empty string
WorkspacePath(env) ==
  IF env # None /\ env # "" THEN env ELSE remote_workspace_dir

\* lines 83-86: listing and copy
CopyBlock(wp) ==
  << D("echo", "", "", "echo 'Contents of workspace " \o wp \o ":'"),
     D("ls", wp, "", "ls -la " \o wp),
     D("cp", wp, "$BUILD_DIR", "cp -r " \o wp \o " $BUILD_DIR") >>

\* mutant: the copied .git entry is removed recursively
GitFileBlockRecursive(wp) ==
  << D("echo", "", "", "echo 'Checking for .git file in current workspace...'"),
     D("if", "is_file", wp \o "/.git", "if [ -f " \o wp \o "/.git ]; then"),
     D("echo", "", "", "  echo 'Found .git file at: " \o wp \o "/.git'"),
     D("echo", "", "",
       "  echo 'This is a submodule .git file, removing it to let git handle it properly'"),
     D("rm", "-rf", "$BUILD_DIR/.git", "  rm -rf $BUILD_DIR/.git"),
     D("else", "", "", "else"),
     D("echo", "", "", "  echo 'No .git file found in current workspace'"),
     D("fi", "", "", "fi") >>

\* lines 88-95: drop the .git file of a submodule checkout
GitFileBlock(wp) ==
  << D("echo", "", "", "echo 'Checking for .git file in current workspace...'"),
     D("if", "is_file", wp \o "/.git", "if [ -f " \o wp \o "/.git ]; then"),
     D("echo", "", "", "  echo 'Found .git file at: " \o wp \o "/.git'"),
     D("echo", "", "",
       "  echo 'This is a submodule .git file, removing it to let git handle it properly'"),
     D("rm", "-f", "$BUILD_DIR/.git", "  rm -f $BUILD_DIR/.git"),
     D("else", "", "", "else"),
     D("echo", "", "", "  echo 'No .git file found in current workspace'"),
     D("fi", "", "", "fi") >>

\* mutant: the commit on an existing repository carries the first label
InitBlockOneLabel ==
  << D("if", "not_dir", "$BUILD_DIR/.git", "if [ ! -d $BUILD_DIR/.git ]; then"),
     D("echo", "", "", "  echo 'Initializing git repository...'"),
     D("cd", "$BUILD_DIR", "", "  cd $BUILD_DIR"),
     D("git_init", "", "", "  git init"),
     D("git_config", "user.name", FixedName,
       "  git config user.name bitbucket-pipelines"),
     D("git_config", "user.email", FixedEmail,
       "  git config user.email commits-noreply@bitbucket.org"),
     D("git_add", ".", "", "  git add ."),
     D("git_commit", "Initial commit", "", "  git commit -m 'Initial commit'"),
     D("echo", "", "", "  echo 'Creating initial commit...'"),
     D("else", "", "", "else"),
     D("echo", "", "", "  echo 'Repository already exists, resetting...'"),
     D("cd", "$BUILD_DIR", "", "  cd $BUILD_DIR"),
     D("git_add", ".", "", "  git add ."),
     D("git_commit", "Initial commit", "", "  git commit -m 'Initial commit'"),
     D("fi", "", "", "fi") >>

\* lines 97-111: initialise a repository, or commit on the existing one
InitBlock ==
  << D("if", "not_dir", "$BUILD_DIR/.git", "if [ ! -d $BUILD_DIR/.git ]; then"),
     D("echo", "", "", "  echo 'Initializing git repository...'"),
     D("cd", "$BUILD_DIR", "", "  cd $BUILD_DIR"),
     D("git_init", "", "", "  git init"),
     D("git_config", "user.name", FixedName,
       "  git config user.name bitbucket-pipelines"),
     D("git_config", "user.email", FixedEmail,
       "  git config user.email commits-noreply@bitbucket.org"),
     D("git_add", ".", "", "  git add ."),
     D("git_commit", "Initial commit", "", "  git commit -m 'Initial commit'"),
     D("echo", "", "", "  echo 'Creating initial commit...'"),
     D("else", "", "", "else"),
     D("echo", "", "", "  echo 'Repository already exists, resetting...'"),
     D("cd", "$BUILD_DIR", "", "  cd $BUILD_DIR"),
     D("git_add", ".", "", "  git add ."),
     D("git_commit", "Update commit", "", "  git commit -m 'Update commit'"),
     D("fi", "", "", "fi") >>

\* lines 112-121: re-stage and commit when something is staged
RestageBlock ==
  << D("cd", "$BUILD_DIR", "", "cd $BUILD_DIR"),
     D("echo", "", "", "echo 'Creating initial commit...'"),
     D("git_add", ".", "", "git add ."),
     D("if", "diff_cached_quiet", "", "if git diff --cached --quiet; then"),
     D("echo", "", "", "  echo 'No changes to commit, working tree is clean'"),
     D("else", "", "", "else"),
     D("git_commit", "Initial commit", "", "  git commit -m 'Initial commit'"),
     D("echo", "", "", "  echo 'Initial commit created'"),
     D("fi", "", "", "fi") >>

\* lines 122-124: identity and push default
ConfigBlock ==
  << D("git_config", "user.name", FixedName,
       "git config user.name bitbucket-pipelines"),
     D("git_config", "user.email", FixedEmail,
       "git config user.email commits-noreply@bitbucket.org"),
     D("git_config", "push.default", "current",
       "git config push.default current") >>

\* mutant: origin is registered against the standard configured workspace
OriginBlockStandard(wp) ==
  << D("if", "remote_get_url", "origin",
       "if git remote get-url origin >/dev/null 2>&1; then"),
     D("git_remote_set_url", "origin", "file://" \o remote_workspace_dir,
       "  git remote set-url origin file://" \o remote_workspace_dir),
     D("echo", "", "", "  echo 'Updated existing remote origin'"),
     D("else", "", "", "else"),
     D("git_remote_add", "origin", "file://" \o remote_workspace_dir,
       "  git remote add origin file://" \o remote_workspace_dir),
     D("echo", "", "", "  echo 'Added remote origin'"),
     D("fi", "", "", "fi") >>

\* lines 127-133: register or update origin
OriginBlock(wp) ==
  << D("if", "remote_get_url", "origin",
       "if git remote get-url origin >/dev/null 2>&1; then"),
     D("git_remote_set_url", "origin", "file://" \o wp,
       "  git remote set-url origin file://" \o wp),
     D("echo", "", "", "  echo 'Updated existing remote origin'"),
     D("else", "", "", "else"),
     D("git_remote_add", "origin", "file://" \o wp,
       "  git remote add origin file://" \o wp),
     D("echo", "", "", "  echo 'Added remote origin'"),
     D("fi", "", "", "fi") >>

\* lines 134-135: reflog expiry and the exclude entry
ExcludeBlock ==
  << D("git_reflog_expire", "", "", "git reflog expire --expire=all --all"),
     D("append", ".bitbucket/pipelines/generated", ".git/info/exclude",
       "echo '.bitbucket/pipelines/generated' >> .git/info/exclude") >>

\* mutant: the submodule update skips LFS smudging unless lfs is resolved on
SubmoduleBlockLfs ==
  << D("if", "is_file", ".gitmodules", "if [ -f .gitmodules ]; then"),
     D("git_submodule_update", "", "",
       IF _should_clone_lfs(settings.stepLfs, settings.globalLfs)
       THEN "  git submodule update --init --recursive"
       ELSE "  GIT_LFS_SKIP_SMUDGE=1 git submodule update --init --recursive"),
     D("fi", "", "", "fi") >>

\* lines 137-139: submodules
SubmoduleBlock ==
  << D("if", "is_file", ".gitmodules", "if [ -f .gitmodules ]; then"),
     D("git_submodule_update", "", "",
       "  git submodule update --init --recursive"),
     D("fi", "", "", "fi") >>

\* the list _get_clone_script() returns
_get_clone_script(env) ==
  LET wp == WorkspacePath(env)
  IN  CopyBlock(wp) \o GitFileBlock(wp) \o InitBlock \o RestageBlock
      \o ConfigBlock \o OriginBlock(wp) \o ExcludeBlock \o SubmoduleBlock

\* ------------------------------------------------------------------------
\* Inputs and initial state

\* the starting states of a source tree: no .git, a .git directory (with a
\* clean or a changed working copy, with or without a local identity and an
\* origin), or the .git file of a submodule checkout; the tree always holds
\* at least one regular file, the pipeline definition
SourceTrees ==
  { t \in [ git : {"none", "dir", "file"}, dirty : BOOLEAN,
            ident : {"none", "host"}, origin : {None, UpstreamUrl},
            modules : BOOLEAN ] :
      t.git # "dir" => (~t.dirty /\ t.ident = "none" /\ t.origin = None) }

\* a build directory that does not exist yet
NoBuild ==
  [ exists |-> FALSE, git |-> "none", modules |-> FALSE, nested |-> FALSE,
    wt |-> FALSE, idx |-> FALSE, commits |-> << >>, name |-> "none",
    email |-> "none", push |-> "none", origin |-> None, exclude |-> 0,
    reflog |-> FALSE ]

\* the repository state `git init` creates in a directory holding files
FreshRepo(b) ==
  [ b EXCEPT !.git = "dir", !.wt = TRUE, !.idx = FALSE, !.commits = << >>,
             !.name = "none", !.email = "none", !.push = "none",
             !.origin = None, !.exclude = 0, !.reflog = FALSE ]

\* the directory `cp -r` creates from the source tree
CopyOf(t) ==
  [ exists |-> TRUE, git |-> t.git, modules |-> t.modules, nested |-> FALSE,
    wt |-> t.dirty, idx |-> FALSE,
    commits |-> IF t.git = "dir"
                THEN << [msg |-> "src", author |-> "host", run |-> 0] >>
                ELSE << >>,
    name |-> t.ident, email |-> t.ident, push |-> "none",
    origin |-> t.origin, exclude |-> 0, reflog |-> t.git = "dir" ]

Init ==
  /\ src \in SourceTrees
  /\ envParent \in ParentRepoPaths
  /\ containerIdentity \in BOOLEAN
  /\ build = NoBuild
  /\ runs = 0
  /\ stepEnabled = None
  /\ globalEnabled = None
  /\ pc = "idle"
  /\ pending = "none"
  /\ outcome = "none"
  /\ calls = << >>
  /\ containerRunning = FALSE
  /\ safeDir = None
  /\ cmdRc = -1
  /\ scriptRc = -1
  /\ spc = 0
  /\ cwd = "start"
  /\ trace = << >>
  /\ exits = << >>
  /\ field = "enabled"
  /\ layers = << None, None, DefaultEnabled >>
  /\ resolved = [by |-> "none", value |-> None]
  /\ variants = { BaseVariant }
  /\ settings = BaseVariant
  /\ args = << >>
  /\ log = {}

envVars ==
  << src, envParent, containerIdentity, field, layers, resolved, variants >>

\* a call without arguments
NoArgs == [cmd |-> "", user |-> "", script |-> << >>]

\* the record of an invocation that ends with calls c and arguments a
Ended(c, a) == [settings |-> settings, calls |-> c, args |-> a]

scriptVars == << build, spc, cwd, trace, exits >>

\* ------------------------------------------------------------------------
\* clone()

\* lines 41-43: the resolved `enabled` is false
CloneSkip ==
  /\ pc = "idle" /\ runs < MaxRuns
  /\ \E s \in OptBool, g \in OptBool :
       /\ ~_should_clone(s, g)
       /\ stepEnabled' = s /\ globalEnabled' = g
  /\ runs' = runs + 1
  /\ outcome' = "skipped"
  /\ calls' = << >> /\ pending' = "none" /\ cmdRc' = -1 /\ scriptRc' = -1
  /\ UNCHANGED << pc, containerRunning, safeDir >>
  /\ UNCHANGED envVars /\ UNCHANGED scriptVars
  /\ settings' \in variants
  /\ args' = << >>
  /\ UNCHANGED log

\* lines 41-54: clone enabled, the runner is constructed
CloneBegin ==
  /\ pc = "idle" /\ runs < MaxRuns
  /\ \E s \in OptBool, g \in OptBool :
       /\ _should_clone(s, g)
       /\ stepEnabled' = s /\ globalEnabled' = g
  /\ runs' = runs + 1
  /\ outcome' = "none"
  /\ pc' = "start"
  /\ calls' = << >> /\ pending' = "none" /\ cmdRc' = -1 /\ scriptRc' = -1
  /\ UNCHANGED << containerRunning, safeDir >>
  /\ UNCHANGED envVars /\ UNCHANGED scriptVars
  /\ settings' \in variants
  /\ args' = << >>
  /\ UNCHANGED log

\* line 55: runner.start() returns
StartOk ==
  /\ pc = "start"
  /\ calls' = Append(calls, "start")
  /\ containerRunning' = TRUE
  /\ safeDir' = None
  /\ pc' = "run_command"
  /\ UNCHANGED << runs, stepEnabled, globalEnabled, pending, outcome, cmdRc,
                  scriptRc >>
  /\ UNCHANGED envVars /\ UNCHANGED scriptVars
  /\ args' = Append(args, NoArgs)
  /\ UNCHANGED << settings, log >>

\* line 55: runner.start() raises, outside the try statement; the runtime
\* may or may not have brought a container up by then
StartRaises ==
  /\ pc = "start"
  /\ calls' = Append(calls, "start")
  /\ containerRunning' \in BOOLEAN
  /\ safeDir' = None
  /\ outcome' = "exception"
  /\ pc' = "idle"
  /\ UNCHANGED << runs, stepEnabled, globalEnabled, pending, cmdRc, scriptRc >>
  /\ UNCHANGED envVars /\ UNCHANGED scriptVars
  /\ args' = Append(args, NoArgs)
  /\ log' = log \cup { Ended(calls', args') }
  /\ UNCHANGED settings

\* mutant: the trusted directory follows the parent-repository override
SafeDirectoryResolved == WorkspacePath(envParent) \o "/.git"

\* line 59: the directory the configure command marks as trusted
SafeDirectory == remote_workspace_dir \o "/.git"

\* lines 58-60: the arguments of run_command
CommandArgs ==
  [ cmd |-> "git config --system --add safe.directory '" \o SafeDirectory
            \o "'",
    user |-> "0", script |-> << >> ]

\* mutant: the exit code of the configure command is not looked at
AfterCommandIgnoring(rc) == "run_script"

\* lines 61-62: where clone() goes once run_command returned rc
AfterCommand(rc) == IF rc # 0 THEN "finally" ELSE "run_script"

\* lines 58-62: the safe-directory command returns an exit code
RunCommand ==
  /\ pc = "run_command"
  /\ calls' = Append(calls, "run_command")
  /\ \E rc \in {0, 1} :
       /\ cmdRc' = rc
       /\ safeDir' = IF rc = 0 THEN SafeDirectory ELSE safeDir
       /\ pc' = AfterCommand(rc)
       /\ pending' = IF pc' = "finally" THEN "setup_error" ELSE pending
  /\ UNCHANGED << runs, stepEnabled, globalEnabled, outcome, containerRunning,
                  scriptRc >>
  /\ UNCHANGED envVars /\ UNCHANGED scriptVars
  /\ args' = Append(args, CommandArgs)
  /\ UNCHANGED << settings, log >>

\* mutant: run_command is called before the try statement is entered
RunCommandRaisesOutsideTry ==
  /\ pc = "run_command"
  /\ calls' = Append(calls, "run_command")
  /\ outcome' = "exception"
  /\ pc' = "idle"
  /\ UNCHANGED << runs, stepEnabled, globalEnabled, pending, containerRunning,
                  safeDir, cmdRc, scriptRc >>
  /\ UNCHANGED envVars /\ UNCHANGED scriptVars
  /\ args' = Append(args, CommandArgs)
  /\ log' = log \cup { Ended(calls', args') }
  /\ UNCHANGED settings

\* lines 58-60: run_command raises
RunCommandRaises ==
  /\ pc = "run_command"
  /\ calls' = Append(calls, "run_command")
  /\ pending' = "exception"
  /\ pc' = "finally"
  /\ UNCHANGED << runs, stepEnabled, globalEnabled, outcome, containerRunning,
                  safeDir, cmdRc, scriptRc >>
  /\ UNCHANGED envVars /\ UNCHANGED scriptVars
  /\ args' = Append(args, CommandArgs)
  /\ UNCHANGED << settings, log >>

\* the script of the current invocation
Script == _get_clone_script(envParent)

\* the lines of a script, as run_script receives them
Texts(s) == [i \in DOMAIN s |-> s[i].text]

\* mutant: the clone command is built and handed over with the script
ScriptArgsWithCloneCommand ==
  [ cmd |-> "", user |-> "",
    script |-> Append(Texts(Script),
                      _get_clone_command("file://" \o WorkspacePath(envParent),
                                         settings)) ]

\* lines 64-65: the arguments of run_script
ScriptArgs == [cmd |-> "", user |-> "", script |-> Texts(Script)]

\* lines 64-65: the script is built and handed to run_script
RunScriptBegin ==
  /\ pc = "run_script"
  /\ calls' = Append(calls, "run_script")
  /\ pc' = "in_script"
  /\ spc' = 1
  /\ cwd' = "start"
  /\ trace' = << >>
  /\ UNCHANGED << build, exits >>
  /\ UNCHANGED << runs, stepEnabled, globalEnabled, pending, outcome,
                  containerRunning, safeDir, cmdRc, scriptRc >>
  /\ UNCHANGED envVars
  /\ args' = Append(args, ScriptArgs)
  /\ UNCHANGED << settings, log >>

\* line 65: run_script raises
RunScriptRaises ==
  /\ pc = "run_script"
  /\ calls' = Append(calls, "run_script")
  /\ pending' = "exception"
  /\ pc' = "finally"
  /\ UNCHANGED << runs, stepEnabled, globalEnabled, outcome, containerRunning,
                  safeDir, cmdRc, scriptRc >>
  /\ UNCHANGED envVars /\ UNCHANGED scriptVars
  /\ args' = Append(args, ScriptArgs)
  /\ UNCHANGED << settings, log >>

\* mutant: a failed script is run again
RunScriptReturnRetry ==
  /\ pc = "script_done"
  /\ scriptRc' = exits[Len(exits)]
  /\ pending' = pending
  /\ pc' = IF scriptRc' # 0 THEN "run_script" ELSE "finally"
  /\ UNCHANGED << runs, stepEnabled, globalEnabled, outcome, calls,
                  containerRunning, safeDir, cmdRc >>
  /\ UNCHANGED envVars /\ UNCHANGED scriptVars
  /\ UNCHANGED << settings, args, log >>

\* lines 65-68: run_script returns the exit status of the script
RunScriptReturn ==
  /\ pc = "script_done"
  /\ scriptRc' = exits[Len(exits)]
  /\ pending' = IF scriptRc' # 0 THEN "setup_error" ELSE pending
  /\ pc' = "finally"
  /\ UNCHANGED << runs, stepEnabled, globalEnabled, outcome, calls,
                  containerRunning, safeDir, cmdRc >>
  /\ UNCHANGED envVars /\ UNCHANGED scriptVars
  /\ UNCHANGED << settings, args, log >>

\* mutant: stop() only on the path without an error
StopOnSuccessOnly ==
  /\ pc = "finally"
  /\ calls' = IF pending = "none" THEN Append(calls, "stop") ELSE calls
  /\ containerRunning' = IF pending = "none" THEN FALSE ELSE containerRunning
  /\ pc' = "return"
  /\ UNCHANGED << runs, stepEnabled, globalEnabled, pending, outcome, safeDir,
                  cmdRc, scriptRc >>
  /\ UNCHANGED envVars /\ UNCHANGED scriptVars
  /\ args' = IF pending = "none" THEN Append(args, NoArgs) ELSE args
  /\ UNCHANGED << settings, log >>

\* lines 69-70: the finally clause
Stop ==
  /\ pc = "finally"
  /\ calls' = Append(calls, "stop")
  /\ containerRunning' = FALSE
  /\ pc' = "return"
  /\ UNCHANGED << runs, stepEnabled, globalEnabled, pending, outcome, safeDir,
                  cmdRc, scriptRc >>
  /\ UNCHANGED envVars /\ UNCHANGED scriptVars
  /\ args' = Append(args, NoArgs)
  /\ UNCHANGED << settings, log >>

\* after line 70: clone() returns, or the pending exception reaches the caller
Return ==
  /\ pc = "return"
  /\ outcome' = IF pending = "none" THEN "returned" ELSE pending
  /\ pc' = "idle"
  /\ UNCHANGED << runs, stepEnabled, globalEnabled, pending, calls,
                  containerRunning, safeDir, cmdRc, scriptRc >>
  /\ UNCHANGED envVars /\ UNCHANGED scriptVars
  /\ log' = log \cup { Ended(calls, args) }
  /\ UNCHANGED << settings, args >>

\* ------------------------------------------------------------------------
\* The script inside the container: one action per kind of directive

cloneVars == << runs, stepEnabled, globalEnabled, pending, outcome, calls,
                containerRunning, safeDir, cmdRc, scriptRc, settings, args,
                log >>

\* the directive the shell is at
Cur == Script[spc]

\* the shell is at a directive of this kind
At(op) == pc = "in_script" /\ spc \in 1..Len(Script) /\ Cur.op = op

\* where the source tree is: the resolved workspace path
SourcePath == WorkspacePath(envParent)

\* the shell's working directory is a git repository
InRepo == cwd = "build" /\ build.exists /\ build.git = "dir"

\* git can name a committer: from the repository's config, or from outside
HasIdentity ==
  /\ build.name # "none" \/ containerIdentity
  /\ build.email # "none" \/ containerIdentity

\* [ -f path ]
IsFile(path) ==
  IF path = SourcePath \o "/.git" THEN src.git = "file"
  ELSE IF path = ".gitmodules" THEN cwd = "build" /\ build.modules
  ELSE FALSE

\* [ -d path ]
IsDir(path) ==
  IF path = "$BUILD_DIR/.git" THEN build.exists /\ build.git = "dir"
  ELSE FALSE

\* the exit status of the condition of an `if` line is zero
Test(d) ==
  CASE d.a = "is_file" -> IsFile(d.b)
    [] d.a = "not_dir" -> ~IsDir(d.b)
    [] d.a = "diff_cached_quiet" -> InRepo /\ ~build.idx
    [] d.a = "remote_get_url" -> InRepo /\ build.origin # None
    [] OTHER -> FALSE

\* the first line after line i whose op is in ops
NextIn(s, i, ops) ==
  CHOOSE j \in (i+1)..Len(s) :
    /\ s[j].op \in ops
    /\ \A k \in (i+1)..(j-1) : s[k].op \notin ops

\* the command succeeded: the shell goes on with the next line
Succeed(b, c) ==
  /\ build' = b
  /\ cwd' = c
  /\ spc' = spc + 1
  /\ trace' = Append(trace, [op |-> Cur.op, a |-> Cur.a, ok |-> TRUE])
  /\ exits' = exits
  /\ pc' = pc

\* the command failed: the shell stops and the script exits nonzero
Errexit ==
  /\ build' = build
  /\ cwd' = cwd
  /\ spc' = spc
  /\ trace' = Append(trace, [op |-> Cur.op, a |-> Cur.a, ok |-> FALSE])
  /\ exits' = Append(exits, 1)
  /\ pc' = "script_done"

\* echo '...'
Echo ==
  /\ At("echo")
  /\ spc' = spc + 1
  /\ UNCHANGED << build, cwd, trace, exits, pc >>
  /\ UNCHANGED cloneVars /\ UNCHANGED envVars

\* ls -la <path>
Ls ==
  /\ At("ls")
  /\ IF Cur.a = SourcePath THEN Succeed(build, cwd) ELSE Errexit
  /\ UNCHANGED cloneVars /\ UNCHANGED envVars

\* cp -r <path> $BUILD_DIR: creates the directory, or copies into it under
\* the source's name when it exists
Cp ==
  /\ At("cp")
  /\ IF Cur.a # SourcePath THEN Errexit
     ELSE IF ~build.exists THEN Succeed(CopyOf(src), cwd)
     ELSE Succeed([build EXCEPT !.nested = TRUE,
                                !.wt = build.wt \/ ~build.nested], cwd)
  /\ UNCHANGED cloneVars /\ UNCHANGED envVars

\* if <condition>; then
IfTest ==
  /\ At("if")
  /\ spc' = IF Test(Cur) THEN spc + 1
            ELSE NextIn(Script, spc, {"else", "fi"}) + 1
  /\ UNCHANGED << build, cwd, trace, exits, pc >>
  /\ UNCHANGED cloneVars /\ UNCHANGED envVars

\* else, reached at the end of the then-part
Else ==
  /\ At("else")
  /\ spc' = NextIn(Script, spc, {"fi"}) + 1
  /\ UNCHANGED << build, cwd, trace, exits, pc >>
  /\ UNCHANGED cloneVars /\ UNCHANGED envVars

\* fi
Fi ==
  /\ At("fi")
  /\ spc' = spc + 1
  /\ UNCHANGED << build, cwd, trace, exits, pc >>
  /\ UNCHANGED cloneVars /\ UNCHANGED envVars

\* rm -f $BUILD_DIR/.git (a directory is removed only with -r)
Rm ==
  /\ At("rm")
  /\ IF build.git = "dir" /\ Cur.a # "-rf" THEN Errexit
     ELSE Succeed([build EXCEPT !.git = "none"], cwd)
  /\ UNCHANGED cloneVars /\ UNCHANGED envVars

\* cd $BUILD_DIR
Cd ==
  /\ At("cd")
  /\ IF Cur.a = "$BUILD_DIR" /\ build.exists THEN Succeed(build, "build")
     ELSE Errexit
  /\ UNCHANGED cloneVars /\ UNCHANGED envVars

\* git init
GitInit ==
  /\ At("git_init")
  /\ IF cwd = "build" /\ build.git # "file"
     THEN Succeed(IF build.git = "dir" THEN build ELSE FreshRepo(build), cwd)
     ELSE Errexit
  /\ UNCHANGED cloneVars /\ UNCHANGED envVars

\* git config <key> <value>
GitConfig ==
  /\ At("git_config")
  /\ IF InRepo
     THEN Succeed(CASE Cur.a = "user.name" -> [build EXCEPT !.name = Cur.b]
                    [] Cur.a = "user.email" -> [build EXCEPT !.email = Cur.b]
                    [] Cur.a = "push.default" -> [build EXCEPT !.push = Cur.b]
                    [] OTHER -> build, cwd)
     ELSE Errexit
  /\ UNCHANGED cloneVars /\ UNCHANGED envVars

\* git add .
GitAdd ==
  /\ At("git_add")
  /\ IF InRepo
     THEN Succeed([build EXCEPT !.idx = build.idx \/ build.wt, !.wt = FALSE],
                  cwd)
     ELSE Errexit
  /\ UNCHANGED cloneVars /\ UNCHANGED envVars

\* git commit -m <message>: fails without an identity and when nothing is
\* staged
GitCommit ==
  /\ At("git_commit")
  /\ IF InRepo /\ HasIdentity /\ build.idx
     THEN Succeed([build EXCEPT
                     !.commits = Append(build.commits,
                        [msg |-> Cur.a,
                         author |-> IF build.name # "none" THEN build.name
                                    ELSE "container",
                         run |-> Len(exits) + 1]),
                     !.idx = FALSE, !.reflog = TRUE], cwd)
     ELSE Errexit
  /\ UNCHANGED cloneVars /\ UNCHANGED envVars

\* git remote set-url origin <url>: fails when there is no origin
GitRemoteSetUrl ==
  /\ At("git_remote_set_url")
  /\ IF InRepo /\ build.origin # None
     THEN Succeed([build EXCEPT !.origin = Cur.b], cwd)
     ELSE Errexit
  /\ UNCHANGED cloneVars /\ UNCHANGED envVars

\* git remote add origin <url>: fails when origin exists
GitRemoteAdd ==
  /\ At("git_remote_add")
  /\ IF InRepo /\ build.origin = None
     THEN Succeed([build EXCEPT !.origin = Cur.b], cwd)
     ELSE Errexit
  /\ UNCHANGED cloneVars /\ UNCHANGED envVars

\* git reflog expire --expire=all --all
GitReflogExpire ==
  /\ At("git_reflog_expire")
  /\ IF InRepo THEN Succeed([build EXCEPT !.reflog = FALSE], cwd) ELSE Errexit
  /\ UNCHANGED cloneVars /\ UNCHANGED envVars

\* echo '<entry>' >> .git/info/exclude
AppendExclude ==
  /\ At("append")
  /\ IF InRepo THEN Succeed([build EXCEPT !.exclude = build.exclude + 1], cwd)
     ELSE Errexit
  /\ UNCHANGED cloneVars /\ UNCHANGED envVars

\* git submodule update --init --recursive
GitSubmoduleUpdate ==
  /\ At("git_submodule_update")
  /\ IF InRepo THEN Succeed(build, cwd) ELSE Errexit
  /\ UNCHANGED cloneVars /\ UNCHANGED envVars

\* the shell ran off the end of the script: exit status zero
ScriptEnd ==
  /\ pc = "in_script" /\ spc = Len(Script) + 1
  /\ exits' = Append(exits, 0)
  /\ pc' = "script_done"
  /\ UNCHANGED << build, spc, cwd, trace >>
  /\ UNCHANGED cloneVars /\ UNCHANGED envVars

\* ------------------------------------------------------------------------
\* Specification

Next ==
  \/ CloneSkip \/ CloneBegin \/ StartOk \/ StartRaises
  \/ RunCommand \/ RunCommandRaises
  \/ RunScriptBegin \/ RunScriptRaises \/ RunScriptReturn
  \/ Stop \/ Return
  \/ Echo \/ Ls \/ Cp \/ IfTest \/ Else \/ Fi \/ Rm \/ Cd
  \/ GitInit \/ GitConfig \/ GitAdd \/ GitCommit
  \/ GitRemoteSetUrl \/ GitRemoteAdd \/ GitReflogExpire \/ AppendExclude
  \/ GitSubmoduleUpdate \/ ScriptEnd

Spec == Init /\ [][Next]_vars

\* ------------------------------------------------------------------------
\* The settings resolver applied to every combination of layers

\* everything but the result of a resolution
resolveFrame ==
  << src, envParent, containerIdentity, build, runs, stepEnabled,
     globalEnabled, pc, pending, outcome, calls, containerRunning, safeDir,
     cmdRc, scriptRc, spc, cwd, trace, exits, field, layers, variants,
     settings, args, log >>

InitResolve ==
  /\ field \in Fields
  /\ layers \in { << a, b, c >> : a \in LayerValues(field),
                                  b \in LayerValues(field),
                                  c \in LayerValues(field) }
  /\ resolved = [by |-> "none", value |-> None]
  /\ src = [git |-> "none", dirty |-> FALSE, ident |-> "none",
            origin |-> None, modules |-> FALSE]
  /\ envParent = None
  /\ containerIdentity = FALSE
  /\ build = NoBuild
  /\ runs = 0
  /\ stepEnabled = None
  /\ globalEnabled = None
  /\ pc = "idle"
  /\ pending = "none"
  /\ outcome = "none"
  /\ calls = << >>
  /\ containerRunning = FALSE
  /\ safeDir = None
  /\ cmdRc = -1
  /\ scriptRc = -1
  /\ spc = 0
  /\ cwd = "start"
  /\ trace = << >>
  /\ exits = << >>
  /\ variants = { BaseVariant }
  /\ settings = BaseVariant
  /\ args = << >>
  /\ log = {}

\* lines 203-205 applied to the three layers
ApplyFirstNonNone ==
  /\ resolved.by = "none"
  /\ resolved' = [by |-> "_first_non_none_value",
                  value |-> _first_non_none_value(layers)]
  /\ UNCHANGED resolveFrame

\* lines 176-183 applied to the step and pipeline layers
ApplyShouldClone ==
  /\ resolved.by = "none"
  /\ field = "enabled" /\ layers[3] = DefaultEnabled
  /\ resolved' = [by |-> "_should_clone",
                  value |-> Str(_should_clone(layers[1], layers[2]))]
  /\ UNCHANGED resolveFrame

\* lines 185-192 applied to the step and pipeline layers
ApplyShouldCloneLfs ==
  /\ resolved.by = "none"
  /\ field = "lfs" /\ layers[3] = DefaultLfs
  /\ resolved' = [by |-> "_should_clone_lfs",
                  value |-> Str(_should_clone_lfs(layers[1], layers[2]))]
  /\ UNCHANGED resolveFrame

\* lines 194-201 applied to the step and pipeline layers
ApplyGetCloneDepth ==
  /\ resolved.by = "none"
  /\ field = "depth" /\ layers[3] = DefaultDepth
  /\ resolved' = [by |-> "_get_clone_depth",
                  value |-> _get_clone_depth(layers[1], layers[2])]
  /\ UNCHANGED resolveFrame

NextResolve ==
  \/ ApplyFirstNonNone \/ ApplyShouldClone \/ ApplyShouldCloneLfs
  \/ ApplyGetCloneDepth

SpecResolve == InitResolve /\ [][NextResolve]_vars

\* ------------------------------------------------------------------------
\* clone() for the steps of a pipeline that differ in lfs, depth and branch

InitSettings ==
  /\ src \in { t \in SourceTrees :
                 \/ t.git = "none" /\ t.modules
                 \/ t.git = "file" /\ ~t.modules }
  /\ envParent = None
  /\ containerIdentity = FALSE
  /\ variants = Variants
  /\ settings = BaseVariant
  /\ build = NoBuild
  /\ runs = 0
  /\ stepEnabled = None
  /\ globalEnabled = None
  /\ pc = "idle"
  /\ pending = "none"
  /\ outcome = "none"
  /\ calls = << >>
  /\ args = << >>
  /\ log = {}
  /\ containerRunning = FALSE
  /\ safeDir = None
  /\ cmdRc = -1
  /\ scriptRc = -1
  /\ spc = 0
  /\ cwd = "start"
  /\ trace = << >>
  /\ exits = << >>
  /\ field = "enabled"
  /\ layers = << None, None, DefaultEnabled >>
  /\ resolved = [by |-> "none", value |-> None]

SpecSettings == InitSettings /\ [][Next]_vars

\* ------------------------------------------------------------------------
\* Helpers of the properties

\* how many times fn occurs in the call sequence
Count(seq, fn) == Cardinality({ i \in 1..Len(seq) : seq[i] = fn })

\* a clone() invocation that was not skipped has ended
Terminated == pc = "idle" /\ outcome \in {"returned", "setup_error", "exception"}

TypeOK ==
  /\ pc \in {"idle", "start", "run_command", "run_script", "in_script",
             "script_done", "finally", "return"}
  /\ runs \in 0..MaxRuns
  /\ outcome \in {"none", "skipped", "returned", "setup_error", "exception"}
  /\ pending \in {"none", "setup_error", "exception"}
  /\ Len(exits) <= runs

\* the resolved `enabled` setting of the current invocation is false: the
\* first non-absent value of step, pipeline and the default (true) is false
EnabledResolvesFalse ==
  \/ stepEnabled = "False"
  \/ stepEnabled = None /\ globalEnabled = "False"

\* positions of the trace holding one of the ops
TraceAt(ops) == { i \in DOMAIN trace : trace[i].op \in ops }

\* commits of the build repository that the script created
Made == { i \in DOMAIN build.commits : build.commits[i].run >= 1 }

\* ------------------------------------------------------------------------
\* Properties

\* C1: in an invocation where run_script returned a nonzero exit code,
\* stop() is invoked at most once while the invocation runs, and when the
\* invocation has ended the caller got the clone-setup error, stop() was
\* invoked exactly once and it was the last runtime call before the error
\* surfaced.
C1_StopOnceBeforeError ==
  scriptRc > 0 =>
    /\ Count(calls, "stop") <= 1
    /\ pending = "setup_error"
    /\ outcome \in {"none", "setup_error"}
    /\ outcome = "setup_error" =>
         /\ Count(calls, "stop") = 1
         /\ calls[Len(calls)] = "stop"

C1_Witness ==
  /\ scriptRc > 0
  /\ outcome = "setup_error"
  /\ Count(calls, "stop") = 1

\* C2 as stated: on every exit path of a non-skipped clone(), an exception
\* raised by start() included, stop() has been requested when clone() ends
\* and no container is left running.
C2_StopOnEveryExit ==
  Terminated => Count(calls, "stop") >= 1 /\ ~containerRunning

\* C2 as amended: on every exit path after start() has returned, stop() has
\* been requested exactly once, as the last runtime call, and no container is
\* left running; when start() itself raises, stop() is not requested and the
\* exception reaches the caller.
C2_StopOnceStartReturned ==
  Terminated =>
    IF Len(calls) >= 2
    THEN /\ Count(calls, "stop") = 1
         /\ calls[Len(calls)] = "stop"
         /\ ~containerRunning
    ELSE /\ calls = << "start" >>
         /\ outcome = "exception"

C2_Witness ==
  /\ Terminated
  /\ outcome = "exception"
  /\ calls = << "start", "run_command", "stop" >>
  /\ ~containerRunning

\* C3: when the resolved `enabled` setting is false the invocation ends
\* skipped, without an error, and no runtime call is made.
C3_SkippedNoRuntimeCalls ==
  (runs > 0 /\ EnabledResolvesFalse) =>
    /\ outcome = "skipped"
    /\ pc = "idle"
    /\ calls = << >>

C3_Witness ==
  /\ outcome = "skipped"
  /\ stepEnabled = None
  /\ globalEnabled = "False"
  /\ calls = << >>

\* C4: once the configure command returned a nonzero exit code, run_script
\* is never invoked, and the invocation ends with the clone-setup error
\* after exactly one stop().
C4_ConfigureFailureSkipsBootstrap ==
  cmdRc > 0 =>
    /\ Count(calls, "run_script") = 0
    /\ pc \notin {"run_script", "in_script", "script_done"}
    /\ scriptRc = -1
    /\ pending = "setup_error"
    /\ outcome \in {"none", "setup_error"}
    /\ outcome = "setup_error" =>
         calls = << "start", "run_command", "stop" >>

C4_Witness ==
  /\ cmdRc > 0
  /\ outcome = "setup_error"
  /\ calls = << "start", "run_command", "stop" >>

\* C5 as stated: a second execution of the script, against the build
\* directory a first complete execution left, completes without a failing
\* step.
C5_SecondExecutionSucceeds ==
  (Len(exits) >= 2 /\ exits[1] = 0) => exits[2] = 0

\* C6: the script creates at most one commit labeled "Initial commit" in
\* the build repository, and every commit a second or later execution
\* creates is labeled "Update commit".
C6_OneInitialCommit ==
  /\ Cardinality({ i \in Made : build.commits[i].msg = "Initial commit" }) <= 1
  /\ \A i \in Made :
       build.commits[i].run >= 2 => build.commits[i].msg = "Update commit"

C6_Witness ==
  /\ \E i \in Made : /\ build.commits[i].msg = "Initial commit"
                     /\ build.commits[i].run = 1
  /\ \E i \in Made : /\ build.commits[i].msg = "Update commit"
                     /\ build.commits[i].run = 2
  /\ exits = << 0, 0 >>

\* C7 as stated: for each starting state of the source tree the first
\* execution of the script, into a fresh build directory, completes with no
\* step failing.
C7_FirstExecutionSucceeds ==
  Len(exits) >= 1 => exits[1] = 0

\* C8 as stated: when an execution of the script has ended, a source .git
\* file means the copied .git entry was removed before any git init or git
\* commit ran and git init ran; a source .git directory means nothing was
\* removed, the directory is still there and git init did not run.
C8_GitFileRemovedThenInit ==
  pc = "script_done" =>
    /\ src.git = "file" =>
         /\ \E r \in TraceAt({"rm"}) :
              /\ trace[r].ok
              /\ \A j \in TraceAt({"git_init", "git_commit"}) : r < j
         /\ \E j \in TraceAt({"git_init"}) : trace[j].ok
    /\ src.git = "dir" =>
         /\ TraceAt({"rm", "git_init"}) = {}
         /\ build.git = "dir"

\* C9 as stated: after any number of executions of the script, origin is
\* registered in the build repository with the URL file://<workspace path>.
C9_OriginIsWorkspace ==
  (Len(exits) >= 1 /\ pc # "in_script") =>
    build.origin = "file://" \o SourcePath

\* C10 as stated: in an execution of the script the submodule update runs
\* if and only if the source tree holds a .gitmodules file.
C10_SubmoduleUpdateIffManifest ==
  pc = "script_done" =>
    (TraceAt({"git_submodule_update"}) # {} <=> src.modules)

\* the first of the three layers that is not absent, the third when the
\* first two are absent
FirstPresentLayer ==
  IF layers[1] # None THEN layers[1]
  ELSE IF layers[2] # None THEN layers[2]
  ELSE layers[3]

\* C11: for every field and every combination of present and absent values
\* at the step, pipeline and default layers, the resolver and the field
\* methods return the first non-absent value in that order: a present falsy
\* value at an earlier layer wins, and with step and pipeline absent the
\* result is the default's value.
C11_FirstNonAbsentWins ==
  resolved.by # "none" => resolved.value = FirstPresentLayer

C11_Witness ==
  /\ resolved.by = "_should_clone"
  /\ layers = << "False", "True", "True" >>
  /\ resolved.value = "False"

\* every directive of script s that names the source names path p: the
\* listing, the copy source, the .git-file check and the origin URL
SourceIs(s, p) ==
  \A i \in DOMAIN s :
    /\ s[i].op \in {"ls", "cp"} => s[i].a = p
    /\ (s[i].op = "if" /\ s[i].a = "is_file" /\ s[i].b # ".gitmodules") =>
         s[i].b = p \o "/.git"
    /\ s[i].op \in {"git_remote_set_url", "git_remote_add"} =>
         s[i].b = "file://" \o p

\* script s names a source in all four places
NamesSource(s) ==
  /\ \E i \in DOMAIN s : s[i].op = "ls"
  /\ \E i \in DOMAIN s : s[i].op = "cp"
  /\ \E i \in DOMAIN s : s[i].op = "if" /\ s[i].a = "is_file"
                          /\ s[i].b # ".gitmodules"
  /\ \E i \in DOMAIN s : s[i].op = "git_remote_set_url"
  /\ \E i \in DOMAIN s : s[i].op = "git_remote_add"

\* C12 as stated: whenever the override variable is present in the
\* environment the running script names the override path as its source in
\* all four places, and the standard workspace when it is absent.
C12_OverrideWhenPresent ==
  pc = "in_script" =>
    /\ NamesSource(Script)
    /\ SourceIs(Script, IF envParent # None THEN envParent
                        ELSE remote_workspace_dir)

\* C12 as amended: the running script names the override path in all four
\* places when the override variable is set to a non-empty value, and the
\* standard workspace when it is absent or empty; the origin an execution
\* registers is the file:// URL of that same path.
C12_OverrideWhenNonEmpty ==
  LET expected == IF envParent = "/parent/src" THEN "/parent/src" ELSE "/ws"
  IN  /\ pc = "in_script" =>
           /\ NamesSource(Script)
           /\ SourceIs(Script, expected)
      /\ \A i \in TraceAt({"ls", "cp"}) : trace[i].a = expected
      /\ (pc = "script_done" /\ exits[Len(exits)] = 0) =>
           build.origin = "file://" \o expected

C12_Witness ==
  /\ envParent = "/parent/src"
  /\ pc = "script_done"
  /\ exits[Len(exits)] = 0
  /\ build.origin = "file:///parent/src"
  /\ \E i \in TraceAt({"cp"}) : trace[i].a = "/parent/src" /\ trace[i].ok

\* C13 as stated: every commit the script creates is authored by the fixed
\* automation identity.
C13_CommitsByFixedIdentity ==
  \A i \in Made : build.commits[i].author = FixedName

\* the running or last execution ran git init before position i of its trace
InitializedBefore(i) ==
  \E j \in TraceAt({"git_init"}) : j < i /\ trace[j].ok

\* C14: a commit an execution creates is labeled "Initial commit" exactly
\* when that execution initialized the repository before it and "Update
\* commit" exactly when it did not, and a commit labeled "Initial commit" is
\* the first commit of its repository.
C14_LabelFollowsInit ==
  /\ \A i \in TraceAt({"git_commit"}) :
       trace[i].ok =>
         /\ trace[i].a \in {"Initial commit", "Update commit"}
         /\ trace[i].a = "Initial commit" <=> InitializedBefore(i)
         /\ trace[i].a = "Update commit" <=> ~InitializedBefore(i)
  /\ \A i \in Made : build.commits[i].msg = "Initial commit" => i = 1

C14_Witness ==
  /\ pc = "script_done"
  /\ src.git = "dir"
  /\ Len(exits) = 1
  /\ \E i \in TraceAt({"git_commit"}) :
       trace[i].ok /\ trace[i].a = "Update commit"
  /\ Len(build.commits) = 2

\* the lines of the script that re-stage and commit again (lines 112-121)
InRestage ==
  LET wp == WorkspacePath(envParent)
      before == Len(CopyBlock(wp)) + Len(GitFileBlock(wp)) + Len(InitBlock)
  IN  pc = "in_script" /\ spc \in (before + 1)..(before + Len(RestageBlock))

\* C15 as stated: the second commit is attempted only with something
\* staged, and on a source tree with a .git directory and a clean working
\* copy the first execution creates no commit and does not fail.
C15_RestageIsNoOp ==
  /\ (InRestage /\ Cur.op = "git_commit") => build.idx
  /\ (pc = "script_done" /\ Len(exits) = 1 /\ src.git = "dir" /\ ~src.dirty) =>
       /\ exits[1] = 0
       /\ Made = {}

\* C16 as stated: after any executions of the script the exclude file holds
\* the generated-artifact entry at most once.
C16_ExcludeEntryOnce ==
  build.exclude <= 1

\* the invocations that have ended, and the current one
Invocations == log \cup { Ended(calls, args) }

\* the scripts invocation e handed to run_script
ScriptsOf(e) ==
  { e.args[k].script : k \in { n \in DOMAIN e.calls : e.calls[n] = "run_script" } }

\* every script built so far
AllBuilt == UNION { ScriptsOf(e) : e \in Invocations }

\* C17: all the scripts built for one resolved workspace path, by steps
\* with whatever settings and branch, are the same sequence of lines, and so
\* is the script built under any other value of the override variable that
\* resolves to the same path.
C17_SamePathSameScript ==
  /\ Cardinality(AllBuilt) <= 1
  /\ \A sc \in AllBuilt : \A e \in ParentRepoPaths :
       WorkspacePath(e) = WorkspacePath(envParent) =>
         Texts(_get_clone_script(e)) = sc

C17_Witness ==
  \E a \in log, b \in log :
    /\ a.settings # b.settings
    /\ ScriptsOf(a) # {}
    /\ ScriptsOf(a) = ScriptsOf(b)

\* the call sequences clone() can have issued at any moment
CallPrefixes ==
  { << >>, << "start" >>, << "start", "run_command" >>,
    << "start", "run_command", "stop" >>,
    << "start", "run_command", "run_script" >>,
    << "start", "run_command", "run_script", "stop" >> }

\* C18: the runner calls of an invocation are start, run_command,
\* run_script, stop in that order, each at most once; run_command carries
\* the safe-directory command and user 0, run_script the bootstrap script,
\* and it is called only after run_command returned zero; when both
\* returned zero the invocation returns normally after exactly the four
\* calls.
C18_CallOrder ==
  /\ calls \in CallPrefixes
  /\ Len(args) = Len(calls)
  /\ Count(calls, "run_script") > 0 => cmdRc = 0
  /\ \A k \in DOMAIN calls :
       /\ calls[k] = "run_command" =>
            /\ args[k].user = "0"
            /\ args[k].cmd =
                 "git config --system --add safe.directory '/ws/.git'"
       /\ calls[k] = "run_script" => args[k].script = Texts(Script)
  /\ outcome = "returned" =>
       /\ cmdRc = 0 /\ scriptRc = 0
       /\ calls = << "start", "run_command", "run_script", "stop" >>
  /\ (pc = "idle" /\ cmdRc = 0 /\ scriptRc = 0) => outcome = "returned"

C18_Witness ==
  /\ outcome = "returned"
  /\ calls = << "start", "run_command", "run_script", "stop" >>
  /\ args[2].user = "0"

\* C19 as stated: the directory the configure command marked as trusted is
\* the directory the script changes into to create and use the repository,
\* or its .git.
C19_SafeDirIsBuildDir ==
  safeDir # None =>
    \E i \in DOMAIN Script :
      /\ Script[i].op = "cd"
      /\ safeDir \in { Script[i].a, Script[i].a \o "/.git" }

\* C19 as amended: the directory the configure command marks as trusted is
\* the .git of the standard configured workspace, with or without the
\* override: it is the .git of the tree the script copies from exactly when
\* no non-empty override is set, and never the build directory.
C19_SafeDirIsStandardWorkspace ==
  safeDir # None =>
    /\ safeDir = "/ws/.git"
    /\ safeDir = SourcePath \o "/.git" <=> envParent # "/parent/src"
    /\ safeDir \notin { "$BUILD_DIR", "$BUILD_DIR/.git" }

C19_Witness ==
  /\ envParent = "/parent/src"
  /\ safeDir = "/ws/.git"
  /\ pc = "script_done"
  /\ build.exists /\ build.git = "dir"

\* C20: two invocations, whatever their lfs and depth settings and current
\* branch, pass the same arguments to every call they have in common.
C20_SettingsDoNotReachCalls ==
  \A a \in Invocations, b \in Invocations :
    \A k \in DOMAIN a.calls \cap DOMAIN b.calls :
      a.calls[k] = b.calls[k] => a.args[k] = b.args[k]

C20_Witness ==
  \E a \in log, b \in log :
    /\ a.settings.stepLfs # b.settings.stepLfs
    /\ a.calls = << "start", "run_command", "run_script", "stop" >>
    /\ b.calls = a.calls
    /\ b.args = a.args

====
